---- MODULE Spec2Model ----
(***************************************************************************)
(* Model of docs/autogen_rst.py: make_rst mirrors a source package tree    *)
(* into a tree of .rst stubs (module pages and package indexes).           *)
(*                                                                         *)
(* Strings are sequences of one-character strings, so that startswith,     *)
(* endswith, split, replace, splitext and slicing are computed as Python   *)
(* computes them.  A source tree is the set of its file paths (relative to *)
(* src_root, a path being a sequence of names); its directories are the    *)
(* proper prefixes of those paths.  The output file system maps a path     *)
(* relative to rst_root to the sequence of chunks the file holds.          *)
(***************************************************************************)
EXTENDS Naturals, Sequences, FiniteSets, TLC

VARIABLES
    tree,       \* the source tree under src_root
    rootName,   \* os.path.basename(src_root)
    prefix,     \* package_prefix
    clean,      \* clean
    overwrite,  \* overwrite
    rst,        \* files under rst_root: path -> content
    rstDir,     \* os.path.isdir(rst_root)
    pc,         \* position of make_rst: "clean", "rootindex", "walk", "done"
    todo,       \* directories os.walk has still to yield, in order
    run,        \* number of the current invocation of make_rst
    orig,       \* files under rst_root before the first invocation
    before,     \* files under rst_root when the current invocation started
    dirBefore,  \* os.path.isdir(rst_root) when the current invocation started
    wlog        \* the write_to_file calls of the current invocation, in order

vars == <<tree, rootName, prefix, clean, overwrite, rst, rstDir, pc, todo,
          run, orig, before, dirBefore, wlog>>

----------------------------------------------------------------------------
(* Bounds *)

MaxFiles == 2
MaxRuns == 2

----------------------------------------------------------------------------
(* Names *)

a_py == <<"a", ".", "p", "y">>
index_py == <<"i", "n", "d", "e", "x", ".", "p", "y">>
p_py == <<"_", "p", ".", "p", "y">>
n_txt == <<"n", ".", "t", "x", "t">>
sub == <<"s", "u", "b">>
inner == <<"i", "n", "n", "e", "r">>
priv == <<"_", "p", "r", "i", "v">>
pkg == <<"p", "k", "g">>
upkg == <<"_", "p", "k", "g">>
xdot == <<"x", ".">>
index_rst == <<"i", "n", "d", "e", "x", ".", "r", "s", "t">>
a_rst == <<"a", ".", "r", "s", "t">>
old_rst == <<"o", "l", "d", ".", "r", "s", "t">>
dot_py == <<".", "p", "y">>
dot_rst == <<".", "r", "s", "t">>
index == <<"i", "n", "d", "e", "x">>
tianshou == <<"t", "i", "a", "n", "s", "h", "o", "u">>
TianshouTitle ==
    <<"T", "i", "a", "n", "s", "h", "o", "u", " ", "A", "P", "I", " ",
      "R", "e", "f", "e", "r", "e", "n", "c", "e">>

\* The candidate files of a source tree.
SrcFiles ==
    { <<a_py>>, <<index_py>>, <<p_py>>, <<n_txt>>,
      <<sub, a_py>>, <<sub, index_py>>,
      <<sub, inner, a_py>>, <<sub, inner, p_py>>,
      <<sub, priv, a_py>>,
      <<priv, a_py>>, <<priv, inner, a_py>> }

\* The order in which the file system lists the entries of a directory.
NameOrder == <<a_py, index_py, p_py, n_txt, sub, inner, priv>>

\* The files that may lie under rst_root before the first invocation.
PreFiles == { <<a_rst>>, <<index_rst>>, <<old_rst>> }

\* Hand-written content of a file that make_rst did not generate.
Sentinel == [title |-> <<"m">>, rule |-> 0, automodule |-> <<>>, refs |-> <<>>]

EmptyFS == [p \in {} |-> <<>>]

----------------------------------------------------------------------------
(* Python string and path functions *)

StartsWith(s, c) == Len(s) >= Len(c) /\ SubSeq(s, 1, Len(c)) = c

EndsWith(s, c) == Len(s) >= Len(c) /\ SubSeq(s, Len(s) - Len(c) + 1, Len(s)) = c

\* s[:-3]
DropLast3(s) == IF Len(s) >= 3 THEN SubSeq(s, 1, Len(s) - 3) ELSE <<>>

\* s.split(c) for a one-character separator c
RECURSIVE Split(_, _)
Split(s, c) ==
    IF \A i \in 1..Len(s) : s[i] # c
    THEN <<s>>
    ELSE LET i == CHOOSE k \in 1..Len(s) :
                      s[k] = c /\ \A j \in 1..(k - 1) : s[j] # c
         IN  <<SubSeq(s, 1, i - 1)>> \o Split(SubSeq(s, i + 1, Len(s)), c)

\* c.join(parts)
RECURSIVE Join(_, _)
Join(parts, c) ==
    IF parts = <<>> THEN <<>>
    ELSE IF Len(parts) = 1 THEN parts[1]
    ELSE parts[1] \o c \o Join(Tail(parts), c)

\* s.replace(c, r) for a one-character c
RECURSIVE Replace(_, _, _)
Replace(s, c, r) ==
    IF s = <<>> THEN <<>>
    ELSE (IF Head(s) = c THEN r ELSE <<Head(s)>>) \o Replace(Tail(s), c, r)

\* os.path.splitext(name) for a name without separators: <<root, ext>>
Splitext(s) ==
    LET dots == {i \in 1..Len(s) : s[i] = "."}
    IN  IF dots = {} THEN <<s, <<>>>>
        ELSE LET i == CHOOSE k \in dots : \A j \in dots : j <= k
             IN  IF \E j \in 1..(i - 1) : s[j] # "."
                 THEN <<SubSeq(s, 1, i - 1), SubSeq(s, i, Len(s))>>
                 ELSE <<s, <<>>>>

\* os.path.join of relative, non-empty parts
OsPathJoin(parts) == Join(parts, <<"/">>)

\* The file a path string names below rst_root: its segments, "." resolved.
Resolve(path) == SelectSeq(Split(path, "/"), LAMBDA seg : seg # <<".">>)

----------------------------------------------------------------------------
(* The source tree *)

IsUnder(d, f) == Len(d) < Len(f) /\ SubSeq(f, 1, Len(d)) = d

Entries(t, d) == { f[Len(d) + 1] : f \in {g \in t : IsUnder(d, g)} }

IsDir(t, d) == d = <<>> \/ \E g \in t : IsUnder(d, g)

\* os.listdir(d)
Listdir(t, d) == SelectSeq(NameOrder, LAMBDA n : n \in Entries(t, d))

\* the dirnames and filenames os.walk yields for d
Dirnames(t, d) == SelectSeq(Listdir(t, d), LAMBDA n : IsDir(t, Append(d, n)))

Filenames(t, d) == SelectSeq(Listdir(t, d), LAMBDA n : Append(d, n) \in t)

\* os.path.basename(root) for the directory d below src_root
Basename(rn, d) == IF d = <<>> THEN rn ELSE d[Len(d)]

\* os.path.relpath(root, start=src_root)
RelpathToRoot(d) == IF d = <<>> THEN <<".">> ELSE OsPathJoin(d)

\* os.path.relpath(root, start=os.path.dirname(src_root))
RelpathToParent(rn, d) == OsPathJoin(<<rn>> \o d)

----------------------------------------------------------------------------
(* Templates and the write primitive *)

module_template(module_qualname) ==
    LET module_name == Split(module_qualname, ".")[Len(Split(module_qualname, "."))]
        title == Replace(module_name, "_", <<"\\", "_">>)
    IN  [title |-> title, rule |-> Len(title),
         automodule |-> module_qualname, refs |-> <<>>]

index_template(package_name, doc_references) ==
    LET dirname == Split(package_name, ".")[Len(Split(package_name, "."))]
        escaped == Replace(dirname, "_", <<"\\", "_">>)
        title == IF escaped = tianshou THEN TianshouTitle ELSE escaped
    IN  [title |-> title, rule |-> Len(title),
         automodule |-> <<>>, refs |-> doc_references]

IsModulePage(doc) == doc.automodule # <<>>

IsIndexPage(doc) == doc.automodule = <<>> /\ doc.rule = Len(doc.title)

\* open(path, "a"): the content is added to what the file holds
write_to_file_append(st, content, path, note) ==
    LET p == Resolve(path)
        old == IF p \in DOMAIN st.files THEN st.files[p] ELSE <<>>
    IN  [files |-> [q \in DOMAIN st.files \cup {p} |->
                        IF q = p THEN Append(old, content) ELSE st.files[q]],
         log |-> Append(st.log, [path |-> p, doc |-> content, skiplog |-> note])]

\* write_to_file: makedirs, then open(path, "w") replaces the content.
\* st is the output file system with the record of the writes so far; note
\* records whether "already exists, skipping it" was logged for this write.
write_to_file(st, content, path, note) ==
    LET p == Resolve(path)
    IN  [files |-> [q \in DOMAIN st.files \cup {p} |->
                        IF q = p THEN <<content>> ELSE st.files[q]],
         log |-> Append(st.log, [path |-> p, doc |-> content, skiplog |-> note])]

----------------------------------------------------------------------------
(* The body of make_rst *)

\* start=src_root in place of start=os.path.dirname(src_root)
BasePackageQualnameFromRoot(pfx, rn, d) ==
    pfx \o Replace(RelpathToRoot(d), "/", <<".">>)

\* base_package_qualname of the walked directory d
BasePackageQualname(pfx, rn, d) ==
    pfx \o Replace(RelpathToParent(rn, d), "/", <<".">>)

\* module_names of a listed directory
ModuleNames(files_in_dir) ==
    LET ms == SelectSeq(files_in_dir,
                        LAMBDA f : EndsWith(f, dot_py) /\ ~StartsWith(f, <<"_">>))
    IN  [i \in 1..Len(ms) |-> DropLast3(ms[i])]

\* subdir_refs of the listed directory at dpath
SubdirRefs(t, dpath, files_in_dir) ==
    LET ds == SelectSeq(files_in_dir,
                        LAMBDA f : IsDir(t, Append(dpath, f)) /\ ~StartsWith(f, <<"_">>))
    IN  [i \in 1..Len(ds) |-> OsPathJoin(<<ds[i], index>>)]

\* an index is written for every listed directory
EmitsIndexAlways(module_names) == TRUE

\* the negation of "if not module_names: continue"
EmitsIndex(module_names) == module_names # <<>>

\* "for dirname in dirnames": the package indexes of the subdirectories of d
RECURSIVE IndexLoop(_, _, _, _, _, _)
IndexLoop(st, t, pfx, rn, d, dirnames) ==
    IF dirnames = <<>> THEN st
    ELSE
        LET dirname == Head(dirnames)
            files_in_dir == Listdir(t, Append(d, dirname))
            module_names == ModuleNames(files_in_dir)
            subdir_refs == SubdirRefs(t, Append(d, dirname), files_in_dir)
            package_qualname == BasePackageQualname(pfx, rn, d) \o <<".">> \o dirname
            package_index_rst_path ==
                OsPathJoin(<<RelpathToRoot(d), dirname, index_rst>>)
            next ==
                IF StartsWith(dirname, <<"_">>) THEN st
                ELSE IF ~EmitsIndex(module_names) THEN st
                ELSE write_to_file(st,
                         index_template(package_qualname, module_names \o subdir_refs),
                         package_index_rst_path, FALSE)
        IN  IndexLoop(next, t, pfx, rn, d, Tail(dirnames))

\* "for filename in filenames": the module pages of the files of d.  The test
\* of os.path.exists and overwrite only logs; the write follows in any case.
RECURSIVE ModuleLoop(_, _, _, _, _, _)
ModuleLoop(st, pfx, rn, ow, d, filenames) ==
    IF filenames = <<>> THEN st
    ELSE
        LET filename == Head(filenames)
            base_name == Splitext(filename)[1]
            ext == Splitext(filename)[2]
            module_qualname ==
                BasePackageQualname(pfx, rn, d) \o <<".">> \o DropLast3(filename)
            module_rst_path ==
                OsPathJoin(<<RelpathToRoot(d), base_name \o dot_rst>>)
            skiplog == Resolve(module_rst_path) \in DOMAIN st.files /\ ~ow
            next ==
                IF ext = dot_py /\ ~StartsWith(filename, <<"_">>)
                THEN write_to_file(st, module_template(module_qualname),
                                   module_rst_path, skiplog)
                ELSE st
        IN  ModuleLoop(next, pfx, rn, ow, d, Tail(filenames))

\* the directories os.walk yields after d, before those already pending
Descend(t, d) ==
    LET ds == Dirnames(t, d) IN [i \in 1..Len(ds) |-> Append(d, ds[i])]

\* the clean flag is ignored
ShouldCleanAnyway(cl, isdir) == isdir

\* "if clean and os.path.isdir(rst_root)"
ShouldClean(cl, isdir) == cl /\ isdir

\* nothing is removed
RmtreeKeep(files) == files

\* shutil.rmtree(rst_root)
Rmtree(files) == EmptyFS

----------------------------------------------------------------------------
(* The state machine *)

Trees == {t \in SUBSET SrcFiles : Cardinality(t) <= MaxFiles}

Init ==
    /\ tree \in Trees
    /\ rootName \in {pkg, upkg}
    /\ prefix \in {<<>>, xdot}
    /\ clean \in BOOLEAN
    /\ overwrite \in BOOLEAN
    /\ rst \in {[p \in S |-> <<Sentinel>>] : S \in SUBSET PreFiles}
    /\ rstDir \in BOOLEAN
    /\ (DOMAIN rst # {}) => rstDir
    /\ pc = "clean"
    /\ todo = <<>>
    /\ run = 1
    /\ orig = rst
    /\ before = rst
    /\ dirBefore = rstDir
    /\ wlog = <<>>

inputs == <<tree, rootName, prefix, clean, overwrite>>

started == <<run, orig, before, dirBefore>>

\* lines 57-58, the directory is removed
CleanTarget ==
    /\ pc = "clean"
    /\ ShouldClean(clean, rstDir)
    /\ rst' = Rmtree(rst)
    /\ rstDir' = FALSE
    /\ pc' = "rootindex"
    /\ UNCHANGED <<inputs, todo, started, wlog>>

\* lines 57-58, nothing to remove
KeepTarget ==
    /\ pc = "clean"
    /\ ~ShouldClean(clean, rstDir)
    /\ pc' = "rootindex"
    /\ UNCHANGED <<inputs, rst, rstDir, todo, started, wlog>>

\* lines 60-61, and the start of os.walk(src_root)
WriteRootIndex ==
    /\ pc = "rootindex"
    /\ LET base_package_name == prefix \o rootName
           st == write_to_file([files |-> rst, log |-> wlog],
                               index_template(base_package_name, <<>>),
                               OsPathJoin(<<index_rst>>), FALSE)
       IN  /\ rst' = st.files
           /\ wlog' = st.log
    /\ rstDir' = TRUE
    /\ todo' = << <<>> >>
    /\ pc' = "walk"
    /\ UNCHANGED <<inputs, started>>

\* lines 63-65: a directory whose name starts with "_" is passed over, and
\* os.walk goes on into its subdirectories
WalkSkip ==
    /\ pc = "walk"
    /\ todo # <<>>
    /\ StartsWith(Basename(rootName, Head(todo)), <<"_">>)
    /\ todo' = Descend(tree, Head(todo)) \o Tail(todo)
    /\ UNCHANGED <<inputs, rst, rstDir, pc, started, wlog>>

\* lines 63-111: one iteration of the walk
WalkVisit ==
    /\ pc = "walk"
    /\ todo # <<>>
    /\ ~StartsWith(Basename(rootName, Head(todo)), <<"_">>)
    /\ LET d == Head(todo)
           st1 == IndexLoop([files |-> rst, log |-> wlog], tree, prefix,
                            rootName, d, Dirnames(tree, d))
           st2 == ModuleLoop(st1, prefix, rootName, overwrite, d,
                             Filenames(tree, d))
       IN  /\ rst' = st2.files
           /\ wlog' = st2.log
    /\ todo' = Descend(tree, Head(todo)) \o Tail(todo)
    /\ UNCHANGED <<inputs, rstDir, pc, started>>

\* the walk is exhausted and make_rst returns
Return ==
    /\ pc = "walk"
    /\ todo = <<>>
    /\ pc' = "done"
    /\ UNCHANGED <<inputs, rst, rstDir, todo, started, wlog>>

\* make_rst is called again with the same arguments
Rerun ==
    /\ pc = "done"
    /\ run < MaxRuns
    /\ run' = run + 1
    /\ before' = rst
    /\ dirBefore' = rstDir
    /\ wlog' = <<>>
    /\ pc' = "clean"
    /\ UNCHANGED <<inputs, rst, rstDir, todo, orig>>

Next ==
    \/ CleanTarget
    \/ KeepTarget
    \/ WriteRootIndex
    \/ WalkSkip
    \/ WalkVisit
    \/ Return
    \/ Rerun

Spec == Init /\ [][Next]_vars

----------------------------------------------------------------------------
(* Vocabulary of the properties *)

Done == pc = "done"

WrittenPaths == {wlog[i].path : i \in DOMAIN wlog}

Underscored(name) == StartsWith(name, <<"_">>)

\* an eligible module: a .py file whose name does not start with "_"
EligibleName(name) == EndsWith(name, dot_py) /\ ~Underscored(name)

DirOf(f) == SubSeq(f, 1, Len(f) - 1)

NameOf(f) == f[Len(f)]

\* rst_root/<root-relative directory>/<module name>.rst
TargetOf(f) == Append(DirOf(f), DropLast3(NameOf(f)) \o dot_rst)

DirectlyEligible(t, d) ==
    \E f \in t : DirOf(f) = d /\ EligibleName(NameOf(f))

SourceDirs(t) ==
    {<<>>} \cup UNION {{SubSeq(f, 1, n) : n \in 0..(Len(f) - 1)} : f \in t}

NoUnderscoredSegment(segs) == \A k \in DOMAIN segs : ~Underscored(segs[k])

Content(p) == rst[p][Len(rst[p])]

----------------------------------------------------------------------------
(* Properties *)

\* C1: with clean=false and overwrite=false, a file that exists at the target
\* path of an eligible module before the run holds the same content after the
\* run, and the run does not write to that path.
C1_OverwriteRespected ==
    (Done /\ ~clean /\ ~overwrite) =>
        \A f \in tree :
            (EligibleName(NameOf(f)) /\ TargetOf(f) \in DOMAIN before) =>
                /\ TargetOf(f) \in DOMAIN rst
                /\ rst[TargetOf(f)] = before[TargetOf(f)]
                /\ TargetOf(f) \notin WrittenPaths

\* C2: no write of a run has a target path with a segment starting with "_",
\* a module qualified name with such a segment, or an index reference naming
\* such a segment.
C2_ExclusionTotal ==
    \A i \in DOMAIN wlog :
        /\ NoUnderscoredSegment(wlog[i].path)
        /\ NoUnderscoredSegment(Split(wlog[i].doc.automodule, "."))
        /\ \A k \in DOMAIN wlog[i].doc.refs :
               NoUnderscoredSegment(Split(wlog[i].doc.refs[k], "/"))

\* C3: with clean=true and rst_root an existing directory, the deletion comes
\* before the first write: from the clean step on, the files under rst_root
\* are exactly the files this run has written.
C3_CleanWipesFirst ==
    (clean /\ dirBefore /\ pc # "clean") => DOMAIN rst = WrittenPaths

C3_Witness ==
    /\ Done /\ clean /\ dirBefore
    /\ <<old_rst>> \in DOMAIN before
    /\ <<old_rst>> \notin DOMAIN rst
    /\ <<a_rst>> \in DOMAIN before
    /\ <<a_rst>> \in DOMAIN rst

\* C4: with clean=false no file is removed: every path that existed before
\* the run, and before the first of a sequence of runs, still exists.
C4_NeverRemoves ==
    ~clean => (DOMAIN before \subseteq DOMAIN rst /\ DOMAIN orig \subseteq DOMAIN rst)

C4_Witness ==
    /\ Done /\ ~clean /\ run = 2
    /\ <<old_rst>> \in DOMAIN orig
    /\ <<old_rst>> \in DOMAIN rst
    /\ <<a_rst>> \in WrittenPaths

\* a directory no segment of whose path, src_root's own name included,
\* starts with "_"
NonExcluded(d) == NoUnderscoredSegment(<<rootName>> \o d)

IndexTargets ==
    {<<index_rst>>} \cup
    {Append(d, index_rst) :
        d \in {e \in SourceDirs(tree) :
                  e # <<>> /\ NonExcluded(e) /\ DirectlyEligible(tree, e)}}

\* C5: after a run, rst_root/index.rst and the index.rst of every
\* non-excluded directory that directly contains an eligible module hold the
\* package index this run generated, for either value of overwrite.
C5_IndexesRewritten ==
    Done =>
        \A p \in IndexTargets :
            \E i \in DOMAIN wlog :
                /\ wlog[i].path = p
                /\ IsIndexPage(wlog[i].doc)
                /\ p \in DOMAIN rst
                /\ rst[p] = <<wlog[i].doc>>

C7_Idempotent ==
    (Done /\ run >= 2 /\ overwrite) => rst = before

C7_Witness ==
    /\ Done /\ run = 2 /\ overwrite /\ ~clean
    /\ <<old_rst>> \in DOMAIN orig
    /\ <<sub, a_rst>> \in WrittenPaths
    /\ <<sub, index_rst>> \in WrittenPaths
    /\ rst = before

\* package_prefix + basename(src_root) + "." + the directory's segments,
\* dotted, + "." + the module name
ExpectedQualname(f) ==
    prefix \o Join(<<rootName>> \o DirOf(f) \o <<DropLast3(NameOf(f))>>, <<".">>)

HasModulePage(f) ==
    /\ TargetOf(f) \in DOMAIN rst
    /\ Len(rst[TargetOf(f)]) = 1
    /\ IsModulePage(Content(TargetOf(f)))
    /\ Content(TargetOf(f)).automodule = ExpectedQualname(f)

\* C8 as stated: after a run with overwrite=true every eligible module none
\* of whose enclosing directories below the source root starts with "_" has
\* its module page, naming its qualified name.
C8_ModulePageMapping ==
    (Done /\ overwrite) =>
        \A f \in tree :
            (EligibleName(NameOf(f)) /\ NoUnderscoredSegment(DirOf(f))) =>
                HasModulePage(f)

\* C8 as amended: the same, for a source root whose own name does not start
\* with "_" either.
C8_ModulePageMappingBelowPlainRoot ==
    (Done /\ overwrite /\ ~Underscored(rootName)) =>
        \A f \in tree :
            (EligibleName(NameOf(f)) /\ NoUnderscoredSegment(DirOf(f))) =>
                HasModulePage(f)

C8_Witness ==
    /\ Done /\ overwrite /\ rootName = pkg /\ prefix = xdot
    /\ tree = {<<a_py>>, <<sub, a_py>>}
    /\ <<a_rst>> \in DOMAIN orig
    /\ HasModulePage(<<a_py>>)
    /\ HasModulePage(<<sub, a_py>>)

\* C9: no path receives two different documents in one run: a path at which
\* the run has written a package index is not written with a module page
\* later in the run, and still holds a package index.
C9_IndexNotClobbered ==
    \A i \in DOMAIN wlog :
        IsIndexPage(wlog[i].doc) =>
            /\ \A j \in DOMAIN wlog :
                   (j > i /\ IsModulePage(wlog[j].doc)) => wlog[j].path # wlog[i].path
            /\ wlog[i].path \in DOMAIN rst
            /\ IsIndexPage(Content(wlog[i].path))

\* the document a reference of the index at path p points to
RefTarget(p, ref) == DirOf(p) \o Resolve(ref \o dot_rst)

\* C10: after a run with clean=true every reference of every package index
\* the run wrote resolves to a file under rst_root.
C10_NoDanglingRefs ==
    (Done /\ clean) =>
        \A i \in DOMAIN wlog :
            IsIndexPage(wlog[i].doc) =>
                \A k \in DOMAIN wlog[i].doc.refs :
                    RefTarget(wlog[i].path, wlog[i].doc.refs[k]) \in DOMAIN rst

====
